---------------------------- MODULE Spec2Model ----------------------------
(***************************************************************************)
(* SleepGuard: the time utilities (date-utils), the sleep analyzer, the    *)
(* report generator and the SleepTracker facade, as state machines.        *)
(*                                                                         *)
(* The repository holds two formulations of the time utilities and of the  *)
(* SleepAnalyzer.  Both are modelled; a definition with the suffix _du is  *)
(* the one of src/src/utils/date-utils.ts, the suffix _rg the one of       *)
(* src/src/services/report-generator.ts, the suffix _ix the SleepTracker   *)
(* of src/src/index.ts; unsuffixed definitions follow src/unnamed/part_000,*)
(* src/unnamed/part_001 and src/src/sleep-tracker.ts.                      *)
(*                                                                         *)
(* JavaScript numbers are modelled exactly: a number is a normalised       *)
(* fraction, NaN and undefined are values of their own.  A string is a     *)
(* sequence of one-character strings.  A Date is a count of ticks, with    *)
(* TicksPerDay ticks in a day (local time zone UTC, no daylight saving).   *)
(***************************************************************************)
EXTENDS Integers, Sequences, FiniteSets, TLC

VARIABLES sleepEntries, config, input, ret

vars == <<sleepEntries, config, input, ret>>

(***************************************************************************)
(* Bounds of the model.                                                    *)
(***************************************************************************)
MaxEntries == 3
NumDays == 9
TicksPerDay == 2

(***************************************************************************)
(* JavaScript numbers.                                                     *)
(***************************************************************************)
Abs(x) == IF x < 0 THEN -x ELSE x

RECURSIVE GCD(_, _)
GCD(a, b) == IF b = 0 THEN a ELSE GCD(b, a % b)

\* the number n/d (d # 0), normalised
Num(n, d) ==
  LET g == GCD(Abs(n), Abs(d))
      s == IF d < 0 THEN -1 ELSE 1
  IN [kind |-> "number", num |-> s * (n \div g), den |-> s * (d \div g)]

NaN == [kind |-> "NaN", num |-> 0, den |-> 0]
Undefined == [kind |-> "undefined", num |-> 0, den |-> 0]

IntNum(n) == Num(n, 1)
IsNum(x) == x.kind = "number"

\* x + y, x - y, x * y, x / y of JavaScript: NaN (and undefined, which
\* converts to NaN) is contagious; 0/0 is NaN
Add(x, y) == IF IsNum(x) /\ IsNum(y)
             THEN LET l == (x.den * y.den) \div GCD(x.den, y.den)
                  IN Num(x.num * (l \div x.den) + y.num * (l \div y.den), l)
             ELSE NaN
Neg(x) == IF IsNum(x) THEN Num(-x.num, x.den) ELSE NaN
Sub(x, y) == Add(x, Neg(y))
Mul(x, y) == IF IsNum(x) /\ IsNum(y)
             THEN LET g1 == GCD(Abs(x.num), y.den)
                      g2 == GCD(Abs(y.num), x.den)
                  IN Num((x.num \div g1) * (y.num \div g2),
                         (x.den \div g2) * (y.den \div g1))
             ELSE NaN
\* only finite quotients occur: a divisor 0 is never passed
Div(x, y) == IF IsNum(x) /\ IsNum(y) /\ y.num # 0
             THEN Mul(x, Num(y.den, y.num))
             ELSE NaN

\* x < y, x <= y of JavaScript: false as soon as one side is NaN
Lt(x, y) == IsNum(x) /\ IsNum(y) /\ Sub(x, y).num < 0
Le(x, y) == IsNum(x) /\ IsNum(y) /\ Sub(x, y).num <= 0

\* Math.max, Math.min, Math.abs
MathMax(x, y) == IF IsNum(x) /\ IsNum(y) THEN (IF Lt(x, y) THEN y ELSE x) ELSE NaN
MathMin(x, y) == IF IsNum(x) /\ IsNum(y) THEN (IF Lt(y, x) THEN y ELSE x) ELSE NaN
MathAbs(x) == IF IsNum(x) THEN Num(Abs(x.num), x.den) ELSE NaN

\* x || 0 on a number or undefined: 0, NaN and undefined are falsy
OrZero(x) == IF IsNum(x) /\ x.num # 0 THEN x ELSE IntNum(0)

(***************************************************************************)
(* JavaScript strings, as sequences of characters.                         *)
(***************************************************************************)
Digits == <<"0", "1", "2", "3", "4", "5", "6", "7", "8", "9">>
IsDigit(c) == \E i \in 1..10 : Digits[i] = c
DigitVal(c) == (CHOOSE i \in 1..10 : Digits[i] = c) - 1
IsSpace(c) == c = " "

\* String.prototype.toUpperCase on the letters of the markers
ToUpper(c) == CASE c = "a" -> "A" [] c = "p" -> "P" [] c = "m" -> "M" [] OTHER -> c
toUpperCase(s) == [i \in 1..Len(s) |-> ToUpper(s[i])]

\* String.prototype.split(sep) for a one-character separator
RECURSIVE split(_, _)
split(s, sep) ==
  IF \A i \in 1..Len(s) : s[i] # sep
  THEN <<s>>
  ELSE LET k == CHOOSE i \in 1..Len(s) :
                  s[i] = sep /\ \A j \in 1..(i - 1) : s[j] # sep
       IN <<SubSeq(s, 1, k - 1)>> \o split(SubSeq(s, k + 1, Len(s)), sep)

\* String.prototype.trim
RECURSIVE trim(_)
trim(s) == IF s = <<>> THEN s
           ELSE IF IsSpace(s[1]) THEN trim(Tail(s))
           ELSE IF IsSpace(s[Len(s)]) THEN trim(SubSeq(s, 1, Len(s) - 1))
           ELSE s

\* the value of a sequence of decimal digits
RECURSIVE DecimalValue(_)
DecimalValue(s) == IF s = <<>> THEN 0
                   ELSE 10 * DecimalValue(SubSeq(s, 1, Len(s) - 1)) + DigitVal(s[Len(s)])

\* Number(s) for a string of digits, spaces, colons and letters: the empty
\* or blank string is 0, a run of digits its value, anything else NaN
Number(s) ==
  LET t == trim(s)
  IN IF t = <<>> THEN IntNum(0)
     ELSE IF \A i \in 1..Len(t) : IsDigit(t[i]) THEN IntNum(DecimalValue(t))
     ELSE NaN

\* Number.prototype.toString for NaN and the non-negative integers
RECURSIVE NatToString(_)
NatToString(n) == IF n < 10 THEN <<Digits[n + 1]>>
                  ELSE NatToString(n \div 10) \o <<Digits[(n % 10) + 1]>>
toString(x) == IF IsNum(x) THEN NatToString(x.num) ELSE <<"N", "a", "N">>

\* String.prototype.padStart(2, '0')
padStart2(s) == IF Len(s) >= 2 THEN s
                ELSE IF Len(s) = 1 THEN <<"0">> \o s
                ELSE <<"0", "0">>

\* the i-th element of an array, undefined past its end (destructuring)
At(arr, i) == IF i <= Len(arr) THEN arr[i] ELSE Undefined

\* arr.map(Number)
mapNumber(arr) == [i \in 1..Len(arr) |-> Number(arr[i])]


(***************************************************************************)
(* Dates.  Date.prototype.getDay: 0 is Sunday; day 0 of the epoch is a     *)
(* Thursday.  d.setDate(d.getDate() + k) moves d by k days and keeps the   *)
(* time of day.                                                            *)
(***************************************************************************)
getDay(t) == ((t \div TicksPerDay) + 4) % 7
addDays(t, k) == t + k * TicksPerDay

\* getStartOfWeek, the same code in both date-utils
getStartOfWeek(date) ==
  LET day == getDay(date)
      diff == (0 - day) + (IF day = 0 THEN -6 ELSE 1)
  IN addDays(date, diff)

\* getEndOfWeek, the same code in both date-utils
getEndOfWeek(date) ==
  LET day == getDay(date)
      diff == (0 - day) + 6
  IN addDays(date, diff)

\* isWeekend, the same code in both date-utils
isWeekend(date) == getDay(date) = 0 \/ getDay(date) = 6

(***************************************************************************)
(* Time strings.  A call that may throw returns [threw, value].            *)
(***************************************************************************)
Returned(v) == [threw |-> FALSE, value |-> v]
Thrown == [threw |-> TRUE, value |-> <<>>]

\* /^(\d{1,2}):(\d{2})\s*(AM|PM)$/i with an hour group of h digits
timeRegexAt(s, h) ==
  /\ Len(s) >= h + 5
  /\ \A i \in 1..h : IsDigit(s[i])
  /\ s[h + 1] = ":"
  /\ IsDigit(s[h + 2]) /\ IsDigit(s[h + 3])
  /\ \A i \in (h + 4)..(Len(s) - 2) : IsSpace(s[i])
  /\ toUpperCase(SubSeq(s, Len(s) - 1, Len(s))) \in {<<"A", "M">>, <<"P", "M">>}

\* formatTimeTo24Hour of part_000: the marker is required
formatTimeTo24Hour(timeString) ==
  IF ~ \E h \in 1..2 : timeRegexAt(timeString, h)
  THEN Thrown
  ELSE LET h == CHOOSE k \in 1..2 : timeRegexAt(timeString, k)
           parsed == DecimalValue(SubSeq(timeString, 1, h))
           minutes == SubSeq(timeString, h + 2, h + 3)
           ampm == toUpperCase(SubSeq(timeString, Len(timeString) - 1, Len(timeString)))
           hours == IF ampm = <<"A", "M">> /\ parsed = 12 THEN 0
                    ELSE IF ampm = <<"P", "M">> /\ parsed # 12 THEN parsed + 12
                    ELSE parsed
       IN Returned(padStart2(NatToString(hours)) \o <<":">> \o minutes)

\* formatTimeTo24Hour of date-utils.ts: no check of the shape; the marker
\* is compared with 'PM' and 'AM' as written; minutes.toString() throws a
\* TypeError when the string has no colon
formatTimeTo24Hour_du(timeString) ==
  LET parts == split(timeString, " ")
      hm == mapNumber(split(parts[1], ":"))
      hours0 == At(hm, 1)
      minutes == At(hm, 2)
      isPM == Len(parts) >= 2 /\ parts[2] = <<"P", "M">>
      isAM == Len(parts) >= 2 /\ parts[2] = <<"A", "M">>
      hours == IF isPM /\ hours0 # IntNum(12) THEN Add(hours0, IntNum(12))
               ELSE IF isAM /\ hours0 = IntNum(12) THEN IntNum(0)
               ELSE hours0
  IN IF minutes = Undefined
     THEN Thrown
     ELSE Returned(padStart2(toString(hours)) \o <<":">> \o padStart2(toString(minutes)))

\* hours * 60 + minutes of the two numbers of "HH:mm".split(':').map(Number)
totalMinutes(time) ==
  LET hm == mapNumber(split(time, ":"))
  IN Add(Mul(At(hm, 1), IntNum(60)), At(hm, 2))

calculateDuration_nowrap(startTime, endTime) ==
  Returned(Div(Sub(totalMinutes(endTime), totalMinutes(startTime)), IntNum(60)))

\* calculateDuration of part_000
calculateDuration(startTime, endTime) ==
  LET startTotalMinutes == totalMinutes(startTime)
      endTotalMinutes0 == totalMinutes(endTime)
      endTotalMinutes == IF Lt(endTotalMinutes0, startTotalMinutes)
                         THEN Add(endTotalMinutes0, IntNum(24 * 60))
                         ELSE endTotalMinutes0
      durationMinutes == Sub(endTotalMinutes, startTotalMinutes)
  IN Returned(Div(durationMinutes, IntNum(60)))

\* calculateDuration of date-utils.ts: both strings go through
\* formatTimeTo24Hour first, whose TypeError propagates
calculateDuration_du(startTime, endTime) ==
  LET start24 == formatTimeTo24Hour_du(startTime)
      end24 == formatTimeTo24Hour_du(endTime)
  IN IF start24.threw \/ end24.threw
     THEN Thrown
     ELSE LET startTotalMinutes == totalMinutes(start24.value)
              endTotalMinutes == totalMinutes(end24.value)
              durationMinutes0 == Sub(endTotalMinutes, startTotalMinutes)
              durationMinutes == IF Lt(durationMinutes0, IntNum(0))
                                 THEN Add(durationMinutes0, IntNum(24 * 60))
                                 ELSE durationMinutes0
          IN Returned(Div(durationMinutes, IntNum(60)))

\* the private SleepTracker.calculateDuration of sleep-tracker.ts
SleepTracker_calculateDuration(startTime, endTime) ==
  LET startTotalMinutes == totalMinutes(startTime)
      endTotalMinutes0 == totalMinutes(endTime)
      endTotalMinutes == IF Lt(endTotalMinutes0, startTotalMinutes)
                         THEN Add(endTotalMinutes0, IntNum(24 * 60))
                         ELSE endTotalMinutes0
  IN Div(Sub(endTotalMinutes, startTotalMinutes), IntNum(60))

(***************************************************************************)
(* Numbers with a square root.  Math.sqrt is exact here: a Real q + c*sqrt(v)*)
(* is the record [q, c, v] of three fractions, v >= 0, with c = 0 and v = 0 *)
(* when there is no root part.  One computation only ever meets one v.      *)
(***************************************************************************)
Real(q, c, v) == IF c.num = 0 \/ v.num = 0
                 THEN [q |-> q, c |-> IntNum(0), v |-> IntNum(0)]
                 ELSE [q |-> q, c |-> c, v |-> v]
Rational(x) == Real(x, IntNum(0), IntNum(0))
MathSqrt(x) == Real(IntNum(0), IntNum(1), x)

Sgn(n) == IF n > 0 THEN 1 ELSE IF n < 0 THEN -1 ELSE 0

\* the sign of q + c*sqrt(v)
RealSign(x) ==
  IF x.c.num = 0 THEN Sgn(x.q.num)
  ELSE IF x.q.num = 0 THEN Sgn(x.c.num)
  ELSE IF Sgn(x.q.num) = Sgn(x.c.num) THEN Sgn(x.q.num)
  ELSE LET d == Sub(Mul(x.q, x.q), Mul(Mul(x.c, x.c), x.v))
       IN Sgn(x.q.num) * Sgn(d.num)

RealSub(x, y) == Real(Sub(x.q, y.q), Sub(x.c, y.c), IF x.c.num # 0 THEN x.v ELSE y.v)
RealScale(x, k) == Real(Mul(x.q, k), Mul(x.c, k), x.v)
RealLt(x, y) == RealSign(RealSub(x, y)) < 0
RealMax(x, y) == IF RealLt(x, y) THEN y ELSE x
RealMin(x, y) == IF RealLt(y, x) THEN y ELSE x

\* Math.round of a Real in [0, 100]: the integer k with
\* k - 1/2 <= x < k + 1/2, found by bisection of lo..hi
RECURSIVE RoundWithin(_, _, _)
RoundWithin(x, lo, hi) ==
  IF lo = hi THEN lo
  ELSE LET mid == (lo + hi + 1) \div 2
       IN IF RealLt(x, Rational(Num(2 * mid - 1, 2)))
          THEN RoundWithin(x, lo, mid - 1)
          ELSE RoundWithin(x, mid, hi)
MathRound(x) == RoundWithin(x, 0, 100)

(***************************************************************************)
(* SleepAnalyzer.  An entry is a record with the fields isWeekend and      *)
(* duration (a number or undefined); the facade's entries carry more.      *)
(***************************************************************************)
RECURSIVE SumSeq(_)
SumSeq(xs) == IF xs = <<>> THEN IntNum(0)
              ELSE Add(SumSeq(SubSeq(xs, 1, Len(xs) - 1)), xs[Len(xs)])

IsWeekendEntry(e) == e.isWeekend
IsWeekdayEntry(e) == ~e.isWeekend

\* entries.map(entry => entry.duration || 0)
durationsOf(entries) == [i \in 1..Len(entries) |-> OrZero(entries[i].duration)]

idealSleepDuration == 8
maxCatchupHours == 4

\* the share of weekday entries within 1 hour of the weekday mean, in percent
weekdayConsistencyOf(entries) ==
  LET weekdayEntries == SelectSeq(entries, IsWeekdayEntry)
  IN IF Len(weekdayEntries) > 0
     THEN LET weekdayDurations == durationsOf(weekdayEntries)
              avgWeekdayDuration == Div(SumSeq(weekdayDurations),
                                        IntNum(Len(weekdayDurations)))
              IsConsistent(duration) ==
                Le(MathAbs(Sub(duration, avgWeekdayDuration)), IntNum(1))
              consistentEntries == Len(SelectSeq(weekdayDurations, IsConsistent))
          IN Mul(Div(IntNum(consistentEntries), IntNum(Len(weekdayEntries))),
                 IntNum(100))
     ELSE IntNum(0)

weekendRecoveryOf(entries) ==
  SumSeq(durationsOf(SelectSeq(entries, IsWeekendEntry)))

sleepDebtOf_signed(entries) ==
  SumSeq([i \in 1..Len(entries) |->
            Sub(IntNum(idealSleepDuration), OrZero(entries[i].duration))])

\* part_001: the sum of the entries' own deficits
sleepDebtOf(entries) ==
  SumSeq([i \in 1..Len(entries) |->
            MathMax(IntNum(0),
                    Sub(IntNum(idealSleepDuration), OrZero(entries[i].duration)))])

\* report-generator.ts: the deficit of the total
sleepDebtOf_rg(entries) ==
  LET totalSleep == SumSeq(durationsOf(entries))
      idealSleep == IntNum(Len(entries) * idealSleepDuration)
  IN MathMax(IntNum(0), Sub(idealSleep, totalSleep))

\* the sample standard deviation of the weekday durations
sleepVariabilityOf(entries) ==
  LET weekdayEntries == SelectSeq(entries, IsWeekdayEntry)
  IN IF Len(weekdayEntries) > 1
     THEN LET durations == durationsOf(weekdayEntries)
              mean == Div(SumSeq(durations), IntNum(Len(durations)))
              squares == [i \in 1..Len(durations) |->
                            Mul(Sub(durations[i], mean), Sub(durations[i], mean))]
              variance == Div(SumSeq(squares), IntNum(Len(durations) - 1))
          IN MathSqrt(variance)
     ELSE Rational(IntNum(0))

ZeroMetrics == [weekdayConsistency |-> IntNum(0), weekendRecovery |-> IntNum(0),
                sleepDebt |-> IntNum(0), sleepVariability |-> Rational(IntNum(0))]

analyzeSleepConsistency(entries) ==
  IF Len(entries) = 0 THEN ZeroMetrics
  ELSE [weekdayConsistency |-> weekdayConsistencyOf(entries),
        weekendRecovery |-> weekendRecoveryOf(entries),
        sleepDebt |-> sleepDebtOf(entries),
        sleepVariability |-> sleepVariabilityOf(entries)]

analyzeSleepConsistency_rg(entries) ==
  IF Len(entries) = 0 THEN ZeroMetrics
  ELSE [weekdayConsistency |-> weekdayConsistencyOf(entries),
        weekendRecovery |-> weekendRecoveryOf(entries),
        sleepDebt |-> sleepDebtOf_rg(entries),
        sleepVariability |-> sleepVariabilityOf(entries)]

calculateOptimalCatchup_uncapped(entries, targetSleepDuration) ==
  LET weekdayEntries == SelectSeq(entries, IsWeekdayEntry)
  IN IF Len(weekdayEntries) = 0 THEN IntNum(0)
     ELSE MathMax(IntNum(0),
                  Sub(Mul(IntNum(Len(weekdayEntries)), targetSleepDuration),
                      SumSeq(durationsOf(weekdayEntries))))

\* calculateOptimalCatchup, the same code in both analyzers
calculateOptimalCatchup(entries, targetSleepDuration) ==
  LET weekdayEntries == SelectSeq(entries, IsWeekdayEntry)
  IN IF Len(weekdayEntries) = 0 THEN IntNum(0)
     ELSE LET totalWeekdaySleep == SumSeq(durationsOf(weekdayEntries))
              idealWeekdaySleep == Mul(IntNum(Len(weekdayEntries)), targetSleepDuration)
              sleepDeficit == MathMax(IntNum(0), Sub(idealWeekdaySleep, totalWeekdaySleep))
          IN MathMin(sleepDeficit, IntNum(maxCatchupHours))

\* part_001, lines 97-109: consistency less a variability penalty and a debt
\* penalty, from the metrics
qualityScoreOf(consistencyMetrics) ==
  LET baseScore0 == Rational(consistencyMetrics.weekdayConsistency)
      variabilityPenalty ==
        RealMin(RealScale(consistencyMetrics.sleepVariability, IntNum(5)),
                Rational(IntNum(30)))
      baseScore1 == RealMax(Rational(IntNum(0)),
                            RealSub(baseScore0, variabilityPenalty))
      debtPenalty == RealMin(Rational(Mul(consistencyMetrics.sleepDebt, IntNum(5))),
                             Rational(IntNum(40)))
      baseScore2 == RealMax(Rational(IntNum(0)), RealSub(baseScore1, debtPenalty))
  IN IntNum(MathRound(RealMin(Rational(IntNum(100)),
                              RealMax(Rational(IntNum(0)), baseScore2))))

calculateSleepQualityScore(entries) ==
  IF Len(entries) = 0 THEN IntNum(0)
  ELSE qualityScoreOf(analyzeSleepConsistency(entries))

\* report-generator.ts, lines 178-206: a weighted average of three scores,
\* not rounded, from the metrics and the average duration
qualityScoreOf_rg(consistencyMetrics, avgDuration) ==
  LET baseScore == consistencyMetrics.weekdayConsistency
      Within(lo, hi) == Le(IntNum(lo), avgDuration) /\ Le(avgDuration, IntNum(hi))
      durationScore == IF Within(7, 9) THEN 100
                       ELSE IF Within(6, 10) THEN 80
                       ELSE IF Within(5, 11) THEN 60
                       ELSE 40
      debtScore == IF Lt(IntNum(4), consistencyMetrics.sleepDebt) THEN 40
                   ELSE IF Lt(IntNum(2), consistencyMetrics.sleepDebt) THEN 60
                   ELSE IF Lt(IntNum(0), consistencyMetrics.sleepDebt) THEN 80
                   ELSE 100
      finalScore == Add(Add(Mul(baseScore, Num(4, 10)),
                            Mul(IntNum(durationScore), Num(3, 10))),
                        Mul(IntNum(debtScore), Num(3, 10)))
  IN MathMin(IntNum(100), MathMax(IntNum(0), finalScore))

calculateSleepQualityScore_rg(entries) ==
  IF Len(entries) = 0 THEN IntNum(0)
  ELSE qualityScoreOf_rg(analyzeSleepConsistency_rg(entries),
                         Div(SumSeq(durationsOf(entries)), IntNum(Len(entries))))

Recommendation(category, description, priority, impact) ==
  [category |-> category, description |-> description,
   priority |-> priority, impact |-> impact]

When(cond, xs) == IF cond THEN xs ELSE <<>>

\* part_001: thresholds on analysis.consistencyScore and on the metrics;
\* sleepQualityScore is analysis.consistencyScore as supplied
generateMentalHealthInsights(analysis, entries) ==
  LET score == analysis.consistencyScore
      debt == analysis.metrics.sleepDebt
      lowConsistency == Lt(score, IntNum(60))
      highDebt == Lt(IntNum(2), debt)
      someDebt == ~highDebt /\ Lt(IntNum(0), debt)
      lowRecovery == Lt(analysis.metrics.weekendRecovery, IntNum(2))
      highVariability == RealLt(Rational(Num(3, 2)), analysis.metrics.sleepVariability)
      recommendations ==
        When(lowConsistency, <<Recommendation("sleep-schedule",
          "Your sleep schedule shows low consistency. Try to maintain regular sleep and wake times.",
          "high", "high")>>)
        \o When(highDebt, <<Recommendation("catchup-sleep",
          "You have accumulated significant sleep debt. Consider getting more sleep on weekends.",
          "medium", "medium")>>)
        \o When(someDebt, <<Recommendation("catchup-sleep",
          "You have some sleep debt. Aim to recover a bit on weekends.",
          "low", "medium")>>)
        \o When(lowRecovery, <<Recommendation("catchup-sleep",
          "Consider increasing your weekend recovery sleep to help offset weekday sleep loss.",
          "medium", "medium")>>)
        \o When(highVariability, <<Recommendation("consistency",
          "Your sleep times vary significantly. Try to keep more consistent sleep/wake times.",
          "medium", "medium")>>)
      improvementAreas ==
        When(lowConsistency, <<"Inconsistent sleep schedule">>)
        \o When(highDebt, <<"Sleep debt accumulation">>)
        \o When(highVariability, <<"Sleep time variability">>)
      successFactors ==
        When(~lowConsistency, <<"Good sleep schedule consistency">>)
        \o When(~highDebt /\ ~someDebt, <<"Minimal sleep debt">>)
        \o When(~lowRecovery, <<"Adequate weekend recovery sleep">>)
        \o When(~highVariability, <<"Consistent sleep timing">>)
      riskLevel == IF Lt(score, IntNum(50)) \/ Lt(IntNum(4), debt) THEN "high"
                   ELSE IF Lt(score, IntNum(70)) \/ Lt(IntNum(2), debt) THEN "moderate"
                   ELSE "low"
  IN [recommendations |-> recommendations,
      sleepQualityScore |-> analysis.consistencyScore,
      riskLevel |-> riskLevel,
      improvementAreas |-> improvementAreas,
      successFactors |-> successFactors]

\* report-generator.ts: thresholds on the metrics and on
\* analysis.recommendationLevel; sleepQualityScore is recomputed from entries
generateMentalHealthInsights_rg(analysis, entries) ==
  LET consistency == analysis.metrics.weekdayConsistency
      debt == analysis.metrics.sleepDebt
      lowConsistency == Lt(consistency, IntNum(70))
      lowRecovery == Lt(analysis.metrics.weekendRecovery, IntNum(4))
      highDebt == Lt(IntNum(2), debt)
      level == analysis.recommendationLevel
      recommendations ==
        When(lowConsistency, <<Recommendation("sleep-schedule",
          "Try to maintain consistent sleep and wake times throughout the week.",
          "high", "high")>>)
        \o When(lowRecovery, <<Recommendation("catchup-sleep",
          "Consider getting more recovery sleep on weekends to offset weekday sleep debt.",
          "medium", "medium")>>)
        \o When(highDebt, <<Recommendation("consistency",
          "Address accumulated sleep debt by improving weekday sleep habits.",
          "high", "high")>>)
        \o (IF level = "high"
            THEN <<Recommendation("overall",
              "Significant improvements needed in sleep patterns for optimal mental health.",
              "high", "high")>>
            ELSE IF level = "medium"
            THEN <<Recommendation("overall",
              "Some improvements would benefit your mental health and sleep quality.",
              "medium", "medium")>>
            ELSE <<Recommendation("overall",
              "Your sleep patterns are generally healthy and supportive of good mental health.",
              "low", "low")>>)
      improvementAreas ==
        When(lowConsistency, <<"Inconsistent sleep schedule">>)
        \o When(lowRecovery, <<"Insufficient weekend recovery sleep">>)
        \o When(highDebt, <<"Accumulated sleep debt">>)
      successFactors ==
        When(~lowConsistency, <<"Good sleep schedule consistency">>)
        \o When(~lowRecovery, <<"Adequate weekend recovery sleep">>)
        \o When(~highDebt, <<"Minimal sleep debt">>)
        \o When(level # "high" /\ level # "medium", <<"Overall healthy sleep patterns">>)
      riskLevel == IF Lt(IntNum(4), debt) \/ Lt(consistency, IntNum(50)) THEN "high"
                   ELSE IF Lt(IntNum(2), debt) \/ Lt(consistency, IntNum(70)) THEN "moderate"
                   ELSE "low"
  IN [recommendations |-> recommendations,
      sleepQualityScore |-> calculateSleepQualityScore_rg(entries),
      riskLevel |-> riskLevel,
      improvementAreas |-> improvementAreas,
      successFactors |-> successFactors]

\* the SleepAnalyzer that './services/sleep-analyzer' resolves to
Analyzers == {"part_001", "report-generator"}

SleepAnalyzer_analyzeSleepConsistency(impl, entries) ==
  IF impl = "part_001" THEN analyzeSleepConsistency(entries)
  ELSE analyzeSleepConsistency_rg(entries)

SleepAnalyzer_calculateSleepQualityScore(impl, entries) ==
  IF impl = "part_001" THEN calculateSleepQualityScore(entries)
  ELSE calculateSleepQualityScore_rg(entries)

SleepAnalyzer_generateMentalHealthInsights(impl, analysis, entries) ==
  IF impl = "part_001" THEN generateMentalHealthInsights(analysis, entries)
  ELSE generateMentalHealthInsights_rg(analysis, entries)

(***************************************************************************)
(* ReportGenerator.                                                        *)
(***************************************************************************)
\* Number.prototype.toFixed(1) of a non-negative number: the nearest tenth,
\* the larger of two equally near
toFixed1(x) ==
  LET tenths == (2 * 10 * x.num + x.den) \div (2 * x.den)
  IN NatToString(tenths \div 10) \o <<".">> \o <<Digits[(tenths % 10) + 1]>>

placeholderConsistencyScore == 75

ReportGenerator_generateWeeklyReport_unfiltered(entries, startDate) ==
  LET endDate == getEndOfWeek(startDate)
      totalDuration == SumSeq(durationsOf(entries))
      averageSleepDuration == IF Len(entries) > 0
                              THEN Div(totalDuration, IntNum(Len(entries)))
                              ELSE IntNum(0)
      consistencyScore == IntNum(placeholderConsistencyScore)
      weekendEntries == entries
      catchupSleepHours == SumSeq(durationsOf(weekendEntries))
  IN [period |-> [startDate |-> startDate, endDate |-> endDate],
      summary |-> <<"Weekly Sleep Summary: You averaged ",
                    toFixed1(averageSleepDuration),
                    " hours of sleep this week, with ",
                    toFixed1(catchupSleepHours),
                    " hours of weekend recovery sleep.">>,
      keyMetrics |-> [averageSleepDuration |-> averageSleepDuration,
                      consistencyScore |-> consistencyScore,
                      catchupSleepHours |-> catchupSleepHours],
      trends |-> <<"Sleep duration shows moderate consistency",
                   "Weekend recovery sleep is within recommended range",
                   "Overall sleep pattern suggests room for improvement">>,
      visualizations |-> [sleepPatternChart |-> "Chart: Sleep Duration Over Time",
                          consistencyChart |-> "Chart: Sleep Schedule Consistency"]]

ReportGenerator_generateWeeklyReport(entries, startDate) ==
  LET endDate == getEndOfWeek(startDate)
      totalDuration == SumSeq(durationsOf(entries))
      averageSleepDuration == IF Len(entries) > 0
                              THEN Div(totalDuration, IntNum(Len(entries)))
                              ELSE IntNum(0)
      consistencyScore == IntNum(placeholderConsistencyScore)
      weekendEntries == SelectSeq(entries, IsWeekendEntry)
      catchupSleepHours == SumSeq(durationsOf(weekendEntries))
  IN [period |-> [startDate |-> startDate, endDate |-> endDate],
      summary |-> <<"Weekly Sleep Summary: You averaged ",
                    toFixed1(averageSleepDuration),
                    " hours of sleep this week, with ",
                    toFixed1(catchupSleepHours),
                    " hours of weekend recovery sleep.">>,
      keyMetrics |-> [averageSleepDuration |-> averageSleepDuration,
                      consistencyScore |-> consistencyScore,
                      catchupSleepHours |-> catchupSleepHours],
      trends |-> <<"Sleep duration shows moderate consistency",
                   "Weekend recovery sleep is within recommended range",
                   "Overall sleep pattern suggests room for improvement">>,
      visualizations |-> [sleepPatternChart |-> "Chart: Sleep Duration Over Time",
                          consistencyChart |-> "Chart: Sleep Schedule Consistency"]]

(***************************************************************************)
(* SleepTracker (sleep-tracker.ts).  An optional Date argument is <<>> when *)
(* absent and <<d>> when given.  A configuration is a record of the three   *)
(* settings, a partial one holds undefined for the settings it leaves out.  *)
(***************************************************************************)
\* x || d on a setting
OrDefault(x, d) == IF IsNum(x) /\ x.num # 0 THEN x ELSE IntNum(d)

defaultMaxWeekendCatchupHours == 3
defaultMinSleepDuration == 6
defaultTargetSleepDuration == 8

NoSettings == [maxWeekendCatchupHours |-> Undefined, minSleepDuration |-> Undefined,
               targetSleepDuration |-> Undefined]

SleepTracker_constructor(cfg) ==
  [maxWeekendCatchupHours |->
     OrDefault(cfg.maxWeekendCatchupHours, defaultMaxWeekendCatchupHours),
   minSleepDuration |-> OrDefault(cfg.minSleepDuration, defaultMinSleepDuration),
   targetSleepDuration |->
     OrDefault(cfg.targetSleepDuration, defaultTargetSleepDuration)]

\* { ...this.config, ...newConfig }
mergeConfig(old, newConfig) ==
  [f \in DOMAIN old |-> IF newConfig[f] = Undefined THEN old[f] ELSE newConfig[f]]

\* Array.prototype.sort((a, b) => a.date.getTime() - b.date.getTime()),
\* a stable sort: x goes behind every element dated no later than x
insertByDate(sorted, x) ==
  LET k == Cardinality({i \in 1..Len(sorted) : sorted[i].date <= x.date})
  IN SubSeq(sorted, 1, k) \o <<x>> \o SubSeq(sorted, k + 1, Len(sorted))

RECURSIVE sortByDate(_)
sortByDate(entries) ==
  IF entries = <<>> THEN <<>>
  ELSE insertByDate(sortByDate(SubSeq(entries, 1, Len(entries) - 1)),
                    entries[Len(entries)])

\* this.sleepEntries after getSleepEntries, had it sorted the stored array
\* itself whenever no bound is given
storedAfterQuery_sortedInPlace(entries, startDate, endDate) ==
  IF startDate = <<>> /\ endDate = <<>> THEN sortByDate(entries) ELSE entries

\* this.sleepEntries after getSleepEntries: the filters and the sort act on
\* the copy [...this.sleepEntries], the stored array stays as it is
storedAfterQuery(entries, startDate, endDate) == entries

getSleepEntries_endExcluded(entries, startDate, endDate) ==
  LET FromStart(entry) == startDate = <<>> \/ entry.date >= startDate[1]
      ToEnd(entry) == endDate = <<>> \/ entry.date < endDate[1]
  IN sortByDate(SelectSeq(SelectSeq(entries, FromStart), ToEnd))

getSleepEntries(entries, startDate, endDate) ==
  LET FromStart(entry) == startDate = <<>> \/ entry.date >= startDate[1]
      ToEnd(entry) == endDate = <<>> \/ entry.date <= endDate[1]
  IN sortByDate(SelectSeq(SelectSeq(entries, FromStart), ToEnd))

\* the entry logSleep stores
newEntry(sleepData, id) ==
  [id |-> id, date |-> sleepData.date,
   startTime |-> sleepData.startTime, endTime |-> sleepData.endTime,
   isWeekend |-> sleepData.isWeekend,
   duration |-> SleepTracker_calculateDuration(sleepData.startTime, sleepData.endTime)]

EmptyInsights == [recommendations |-> <<>>, sleepQualityScore |-> IntNum(0),
                  riskLevel |-> "low", improvementAreas |-> <<>>,
                  successFactors |-> <<>>]

\* getHealthInsights, had it put the catch-up hours where the score goes
getHealthInsights_catchupAsScore(impl, entries, cfg) ==
  LET allEntries == getSleepEntries(entries, <<>>, <<>>)
  IN IF Len(allEntries) = 0 THEN EmptyInsights
     ELSE LET optimalCatchupHours ==
                calculateOptimalCatchup(allEntries,
                  OrDefault(cfg.targetSleepDuration, defaultTargetSleepDuration))
              analysis ==
                [metrics |-> SleepAnalyzer_analyzeSleepConsistency(impl, allEntries),
                 optimalCatchupHours |-> optimalCatchupHours,
                 consistencyScore |-> optimalCatchupHours,
                 recommendationLevel |-> "low"]
          IN SleepAnalyzer_generateMentalHealthInsights(impl, analysis, allEntries)

getHealthInsights(impl, entries, cfg) ==
  LET allEntries == getSleepEntries(entries, <<>>, <<>>)
  IN IF Len(allEntries) = 0 THEN EmptyInsights
     ELSE LET analysis ==
                [metrics |-> SleepAnalyzer_analyzeSleepConsistency(impl, allEntries),
                 optimalCatchupHours |->
                   calculateOptimalCatchup(allEntries,
                     OrDefault(cfg.targetSleepDuration, defaultTargetSleepDuration)),
                 consistencyScore |-> IntNum(0),
                 recommendationLevel |-> "low"]
          IN SleepAnalyzer_generateMentalHealthInsights(impl, analysis, allEntries)

\* the entries generateWeeklyReport(start) passes to the ReportGenerator
weeklyEntriesOf(entries, start) ==
  LET weekStart == getStartOfWeek(start)
      weekEnd == getEndOfWeek(start)
  IN getSleepEntries(entries, <<weekStart>>, <<weekEnd>>)

generateWeeklyReport(entries, start) ==
  ReportGenerator_generateWeeklyReport(weeklyEntriesOf(entries, start),
                                       getStartOfWeek(start))

(***************************************************************************)
(* The inputs of the model.                                                *)
(***************************************************************************)
Dates == 0..(NumDays * TicksPerDay - 1)

T2230 == <<"2", "2", ":", "3", "0">>
T0645 == <<"0", "6", ":", "4", "5">>
T0800 == <<"0", "8", ":", "0", "0">>
T2300 == <<"2", "3", ":", "0", "0">>
T0100 == <<"0", "1", ":", "0", "0">>
T0000 == <<"0", "0", ":", "0", "0">>
T1030PM == <<"1", "0", ":", "3", "0", " ", "P", "M">>
T645AM == <<"6", ":", "4", "5", " ", "A", "M">>
T1200AM == <<"1", "2", ":", "0", "0", " ", "A", "M">>
T1215PM == <<"1", "2", ":", "1", "5", "P", "M">>
T1030pm == <<"1", "0", ":", "3", "0", " ", "p", "m">>
Tabc == <<"a", "b", "c">>
T7 == <<"7">>
Tabcd == <<"a", "b", ":", "c", "d">>
Tempty == <<>>

Times24 == {T2230, T0645, T0800, T2300, T0100, T0000}
Times12 == {T1030PM, T645AM, T1200AM, T1215PM, T1030pm}
TimesMalformed == {Tabc, T7, Tabcd, Tempty}
TimeStrings == Times24 \cup Times12 \cup TimesMalformed

NoRet == [op |-> "none"]
NoInput == [kind |-> "none"]
NoConfig == [kind |-> "none"]

(***************************************************************************)
(* Spec: the SleepTracker facade.  ret is the last call and what it        *)
(* returned.  Math.random's id is an opaque token nothing reads.           *)
(***************************************************************************)
MaxLogged == 2

Ids == {"k3j9x0q2m"}
\* a Sunday at midnight and the Monday after it at a later time of day
LogDates == {addDays(0, 3), addDays(1, 4)}
LogTimes == {<<T2230, T0645>>, <<T0100, T0645>>}
SleepData == [date : LogDates, times : LogTimes, isWeekend : BOOLEAN]
               \cup {[date |-> addDays(0, 3), times |-> <<Tabc, T0645>>,
                      isWeekend |-> TRUE]}
QueryDates == {<<>>, <<addDays(0, 3)>>}
ReportDates == {0, addDays(0, 3), addDays(1, 5)}
ConstructorConfigs == {NoSettings, [NoSettings EXCEPT !.targetSleepDuration = IntNum(9)]}
UpdateConfigs == {[NoSettings EXCEPT !.targetSleepDuration = IntNum(6)]}

Init ==
  /\ sleepEntries = <<>>
  /\ \E cfg \in ConstructorConfigs : config = SleepTracker_constructor(cfg)
  /\ input = NoInput
  /\ ret = NoRet

LogSleep ==
  /\ Len(sleepEntries) < MaxLogged
  /\ \E data \in SleepData, id \in Ids :
       LET sleepData == [date |-> data.date, startTime |-> data.times[1],
                         endTime |-> data.times[2], isWeekend |-> data.isWeekend]
       IN /\ sleepEntries' = Append(sleepEntries, newEntry(sleepData, id))
          /\ ret' = [op |-> "logSleep", startTime |-> sleepData.startTime,
                     endTime |-> sleepData.endTime,
                     result |-> Returned(id)]
  /\ UNCHANGED <<config, input>>

GetSleepEntries ==
  /\ \E startDate \in QueryDates, endDate \in QueryDates :
       /\ ret' = [op |-> "getSleepEntries", startDate |-> startDate,
                  endDate |-> endDate,
                  value |-> getSleepEntries(sleepEntries, startDate, endDate)]
       /\ sleepEntries' = storedAfterQuery(sleepEntries, startDate, endDate)
  /\ UNCHANGED <<config, input>>

GetHealthInsights ==
  /\ \E impl \in Analyzers :
       ret' = [op |-> "getHealthInsights", impl |-> impl,
               value |-> getHealthInsights(impl, sleepEntries, config)]
  /\ sleepEntries' = storedAfterQuery(sleepEntries, <<>>, <<>>)
  /\ UNCHANGED <<config, input>>

\* startDate || new Date(): without an argument the clock decides
GenerateWeeklyReport ==
  /\ \E given \in BOOLEAN, start \in ReportDates :
       /\ ret' = [op |-> "generateWeeklyReport",
                  startDate |-> IF given THEN <<start>> ELSE <<>>,
                  start |-> start,
                  weeklyEntries |-> weeklyEntriesOf(sleepEntries, start),
                  value |-> generateWeeklyReport(sleepEntries, start)]
       /\ sleepEntries' = storedAfterQuery(sleepEntries, <<getStartOfWeek(start)>>,
                                          <<getEndOfWeek(start)>>)
  /\ UNCHANGED <<config, input>>

UpdateConfig ==
  /\ \E newConfig \in UpdateConfigs :
       /\ config' = mergeConfig(config, newConfig)
       /\ ret' = [op |-> "updateConfig", newConfig |-> newConfig]
  /\ UNCHANGED <<sleepEntries, input>>

Next ==
  \/ LogSleep
  \/ GetSleepEntries
  \/ GetHealthInsights
  \/ GenerateWeeklyReport
  \/ UpdateConfig

Spec == Init /\ [][Next]_vars

(***************************************************************************)
(* SpecIndex: the SleepTracker class of index.ts.  Its constructor,        *)
(* getSleepEntries, getHealthInsights and updateConfig are those of        *)
(* sleep-tracker.ts line for line; logSleep stores the record as given,    *)
(* and generateWeeklyReport ends the week at getEndOfWeek(startOfWeek).    *)
(***************************************************************************)
Ids_ix == {"1762300800000-k3j9x0q2m"}
\* duration is optional in Omit<SleepEntry, 'id'>: left out, or supplied
SuppliedDurations == {Undefined, IntNum(8)}
SleepData_ix == [date : LogDates, times : LogTimes, isWeekend : BOOLEAN,
                 duration : SuppliedDurations]

\* the entry logSleep of index.ts stores: { ...sleepData, id }
newEntry_ix(sleepData, id) ==
  [id |-> id, date |-> sleepData.date,
   startTime |-> sleepData.startTime, endTime |-> sleepData.endTime,
   isWeekend |-> sleepData.isWeekend,
   duration |-> sleepData.duration]

weeklyEntriesOf_ix(entries, start) ==
  LET startOfWeek == getStartOfWeek(start)
      endOfWeek == getEndOfWeek(startOfWeek)
  IN getSleepEntries(entries, <<startOfWeek>>, <<endOfWeek>>)

generateWeeklyReport_ix(entries, start) ==
  ReportGenerator_generateWeeklyReport(weeklyEntriesOf_ix(entries, start),
                                       getStartOfWeek(start))

LogSleep_ix ==
  /\ Len(sleepEntries) < MaxLogged
  /\ \E data \in SleepData_ix, id \in Ids_ix :
       LET sleepData == [date |-> data.date, startTime |-> data.times[1],
                         endTime |-> data.times[2], isWeekend |-> data.isWeekend,
                         duration |-> data.duration]
       IN /\ sleepEntries' = Append(sleepEntries, newEntry_ix(sleepData, id))
          /\ ret' = [op |-> "logSleep", startTime |-> sleepData.startTime,
                     endTime |-> sleepData.endTime,
                     result |-> Returned(id)]
  /\ UNCHANGED <<config, input>>

\* startDate ? getStartOfWeek(startDate) : getStartOfWeek(new Date())
GenerateWeeklyReport_ix ==
  /\ \E given \in BOOLEAN, start \in ReportDates :
       /\ ret' = [op |-> "generateWeeklyReport",
                  startDate |-> IF given THEN <<start>> ELSE <<>>,
                  start |-> start,
                  weeklyEntries |-> weeklyEntriesOf_ix(sleepEntries, start),
                  value |-> generateWeeklyReport_ix(sleepEntries, start)]
       /\ sleepEntries' = storedAfterQuery(sleepEntries, <<getStartOfWeek(start)>>,
                                          <<getEndOfWeek(getStartOfWeek(start))>>)
  /\ UNCHANGED <<config, input>>

NextIndex ==
  \/ LogSleep_ix
  \/ GetSleepEntries
  \/ GetHealthInsights
  \/ GenerateWeeklyReport_ix
  \/ UpdateConfig

SpecIndex == Init /\ [][NextIndex]_vars

(***************************************************************************)
(* SpecTime: the time utilities applied to drawn inputs.                   *)
(***************************************************************************)
InitTime ==
  /\ sleepEntries = <<>>
  /\ config = NoConfig
  /\ input \in [kind : {"time"}, date : Dates,
                startTime : TimeStrings, endTime : TimeStrings]
  /\ ret = NoRet

CallGetStartOfWeek ==
  /\ ret' = [op |-> "getStartOfWeek", arg |-> input.date,
             value |-> getStartOfWeek(input.date)]
  /\ UNCHANGED <<sleepEntries, config, input>>

\* getEndOfWeek of the drawn date, or of the week start just computed
CallGetEndOfWeek ==
  /\ \E from \in {"date"} \cup (IF ret.op = "getStartOfWeek" THEN {"weekStart"} ELSE {}) :
       LET d == IF from = "date" THEN input.date ELSE ret.value
       IN ret' = [op |-> "getEndOfWeek", from |-> from, arg |-> d,
                  value |-> getEndOfWeek(d)]
  /\ UNCHANGED <<sleepEntries, config, input>>

CallIsWeekend ==
  /\ ret' = [op |-> "isWeekend", arg |-> input.date, value |-> isWeekend(input.date)]
  /\ UNCHANGED <<sleepEntries, config, input>>

CallFormatTimeTo24Hour ==
  /\ ret' = [op |-> "formatTimeTo24Hour", impl |-> "part_000", arg |-> input.startTime,
             result |-> formatTimeTo24Hour(input.startTime)]
  /\ UNCHANGED <<sleepEntries, config, input>>

CallFormatTimeTo24Hour_du ==
  /\ ret' = [op |-> "formatTimeTo24Hour", impl |-> "date-utils", arg |-> input.startTime,
             result |-> formatTimeTo24Hour_du(input.startTime)]
  /\ UNCHANGED <<sleepEntries, config, input>>

CallCalculateDuration ==
  /\ ret' = [op |-> "calculateDuration", impl |-> "part_000",
             startTime |-> input.startTime, endTime |-> input.endTime,
             result |-> calculateDuration(input.startTime, input.endTime)]
  /\ UNCHANGED <<sleepEntries, config, input>>

CallCalculateDuration_du ==
  /\ ret' = [op |-> "calculateDuration", impl |-> "date-utils",
             startTime |-> input.startTime, endTime |-> input.endTime,
             result |-> calculateDuration_du(input.startTime, input.endTime)]
  /\ UNCHANGED <<sleepEntries, config, input>>

CallTrackerCalculateDuration ==
  /\ ret' = [op |-> "calculateDuration", impl |-> "sleep-tracker",
             startTime |-> input.startTime, endTime |-> input.endTime,
             result |-> Returned(SleepTracker_calculateDuration(input.startTime,
                                                                input.endTime))]
  /\ UNCHANGED <<sleepEntries, config, input>>

NextTime ==
  \/ CallGetStartOfWeek
  \/ CallGetEndOfWeek
  \/ CallIsWeekend
  \/ CallFormatTimeTo24Hour
  \/ CallFormatTimeTo24Hour_du
  \/ CallCalculateDuration
  \/ CallCalculateDuration_du
  \/ CallTrackerCalculateDuration

SpecTime == InitTime /\ [][NextTime]_vars

(***************************************************************************)
(* SpecAnalyzer: the SleepAnalyzer applied to drawn entry sequences.       *)
(***************************************************************************)
Durations == {Undefined, IntNum(6), IntNum(8), Num(33, 4), IntNum(16), IntNum(24)}
AnalyzerEntries == [isWeekend : BOOLEAN, duration : Durations]
Targets == {IntNum(-1), IntNum(0), IntNum(6), Num(15, 2), IntNum(8), IntNum(9)}

SeqsUpTo(S, n) == UNION {[1..k -> S] : k \in 0..n}

InitAnalyzer ==
  /\ sleepEntries = <<>>
  /\ config = NoConfig
  /\ input \in [kind : {"entries"}, entries : SeqsUpTo(AnalyzerEntries, MaxEntries)]
  /\ ret = NoRet

CallAnalyzeSleepConsistency ==
  /\ ret = NoRet
  /\ \E impl \in Analyzers :
       ret' = [op |-> "analyzeSleepConsistency", impl |-> impl,
               value |-> SleepAnalyzer_analyzeSleepConsistency(impl, input.entries)]
  /\ UNCHANGED <<sleepEntries, config, input>>

CallCalculateOptimalCatchup ==
  /\ ret = NoRet
  /\ \E target \in Targets :
       ret' = [op |-> "calculateOptimalCatchup", target |-> target,
               value |-> calculateOptimalCatchup(input.entries, target)]
  /\ UNCHANGED <<sleepEntries, config, input>>

CallCalculateSleepQualityScore ==
  /\ ret = NoRet
  /\ \E impl \in Analyzers :
       ret' = [op |-> "calculateSleepQualityScore", impl |-> impl,
               value |-> SleepAnalyzer_calculateSleepQualityScore(impl, input.entries)]
  /\ UNCHANGED <<sleepEntries, config, input>>

\* the week starts the reports are asked for
ReportWeekStarts == {addDays(0, 4)}

CallGenerateWeeklyReport ==
  /\ ret = NoRet
  /\ \E startDate \in ReportWeekStarts :
       ret' = [op |-> "ReportGenerator.generateWeeklyReport", startDate |-> startDate,
               value |-> ReportGenerator_generateWeeklyReport(input.entries, startDate)]
  /\ UNCHANGED <<sleepEntries, config, input>>

NextAnalyzer ==
  \/ CallAnalyzeSleepConsistency
  \/ CallCalculateOptimalCatchup
  \/ CallCalculateSleepQualityScore
  \/ CallGenerateWeeklyReport

SpecAnalyzer == InitAnalyzer /\ [][NextAnalyzer]_vars


(***************************************************************************)
(* SpecMetrics: the scoring of lines 97-109 / 178-206 applied to drawn     *)
(* metrics, once and again with one metric made larger;                    *)
(* calculateSleepQualityScore applied to two drawn entry sequences; and    *)
(* generateMentalHealthInsights applied to drawn analysis records.         *)
(***************************************************************************)
MaxCompared == 2

Consistencies == {IntNum(0), IntNum(50), IntNum(70), IntNum(100)}
Debts == {IntNum(0), IntNum(1), IntNum(2), IntNum(3), IntNum(4), IntNum(5)}
Recoveries == {IntNum(0), IntNum(1), IntNum(2), IntNum(4)}
Variabilities == {Rational(IntNum(0)), MathSqrt(IntNum(2)), Rational(Num(3, 2)),
                  Rational(IntNum(2)), Rational(IntNum(7))}
AvgDurations == {IntNum(4), IntNum(6), IntNum(8)}
ConsistencyScores == {IntNum(0), IntNum(49), IntNum(50), IntNum(55), IntNum(59),
                      IntNum(60), IntNum(69), IntNum(70), IntNum(100)}
RecommendationLevels == {"low", "medium", "high"}
InsightEntries == {<<[isWeekend |-> FALSE, duration |-> IntNum(6)]>>}

MetricsRecords == [weekdayConsistency : Consistencies, weekendRecovery : Recoveries,
                   sleepDebt : Debts, sleepVariability : Variabilities]
AnalysisRecords == [metrics : MetricsRecords, optimalCatchupHours : {IntNum(0)},
                    consistencyScore : ConsistencyScores,
                    recommendationLevel : RecommendationLevels]

SleepAnalyzer_qualityScoreOf(impl, consistencyMetrics, avgDuration) ==
  IF impl = "part_001" THEN qualityScoreOf(consistencyMetrics)
  ELSE qualityScoreOf_rg(consistencyMetrics, avgDuration)

InitMetrics ==
  /\ sleepEntries = <<>>
  /\ config = NoConfig
  /\ \/ input \in [kind : {"metrics"},
                    metrics : {m \in MetricsRecords : m.weekendRecovery = IntNum(0)},
                    avgDuration : AvgDurations]
     \/ input \in [kind : {"analysis"}, analysis : AnalysisRecords,
                    entries : InsightEntries]
     \/ input \in [kind : {"pair"},
                    first : SeqsUpTo(AnalyzerEntries, MaxCompared),
                    second : SeqsUpTo(AnalyzerEntries, MaxCompared)]
  /\ ret = NoRet

CallQualityScoreOf ==
  /\ input.kind = "metrics" /\ ret = NoRet
  /\ \E impl \in Analyzers :
       ret' = [op |-> "qualityScoreOf", impl |-> impl, metrics |-> input.metrics,
               value |-> SleepAnalyzer_qualityScoreOf(impl, input.metrics,
                                                      input.avgDuration)]
  /\ UNCHANGED <<sleepEntries, config, input>>

\* the same scoring again, with a larger sleepVariability or a larger
\* sleepDebt and everything else as before
CallQualityScoreOfMore ==
  /\ ret.op = "qualityScoreOf"
  /\ \E more \in {[ret.metrics EXCEPT !.sleepVariability = v] :
                     v \in {w \in Variabilities : RealLt(ret.metrics.sleepVariability, w)}}
                 \cup {[ret.metrics EXCEPT !.sleepDebt = d] :
                     d \in {e \in Debts : Lt(ret.metrics.sleepDebt, e)}} :
       ret' = [op |-> "qualityScoreOfMore", impl |-> ret.impl,
               before |-> ret.metrics, scoreBefore |-> ret.value,
               metrics |-> more,
               value |-> SleepAnalyzer_qualityScoreOf(ret.impl, more, input.avgDuration)]
  /\ UNCHANGED <<sleepEntries, config, input>>

\* calculateSleepQualityScore of one entry sequence and then of another
CallCalculateSleepQualityScoreTwice ==
  /\ input.kind = "pair" /\ ret = NoRet
  /\ \E impl \in Analyzers :
       ret' = [op |-> "calculateSleepQualityScoreTwice", impl |-> impl,
               first |-> SleepAnalyzer_calculateSleepQualityScore(impl, input.first),
               second |-> SleepAnalyzer_calculateSleepQualityScore(impl, input.second)]
  /\ UNCHANGED <<sleepEntries, config, input>>

CallGenerateMentalHealthInsights ==
  /\ input.kind = "analysis" /\ ret = NoRet
  /\ \E impl \in Analyzers :
       ret' = [op |-> "generateMentalHealthInsights", impl |-> impl,
               value |-> SleepAnalyzer_generateMentalHealthInsights(
                           impl, input.analysis, input.entries)]
  /\ UNCHANGED <<sleepEntries, config, input>>

NextMetrics ==
  \/ CallQualityScoreOf
  \/ CallQualityScoreOfMore
  \/ CallCalculateSleepQualityScoreTwice
  \/ CallGenerateMentalHealthInsights

SpecMetrics == InitMetrics /\ [][NextMetrics]_vars

(***************************************************************************)
(* The grammar of time strings the specification states, and the 24-hour   *)
(* normal form it assigns to an accepted string.                           *)
(***************************************************************************)
\* HH:MM with an hour of h digits, in 1..(h + 3)
ClockAt(s, h) ==
  /\ Len(s) >= h + 3
  /\ \A i \in 1..h : IsDigit(s[i])
  /\ s[h + 1] = ":"
  /\ IsDigit(s[h + 2]) /\ IsDigit(s[h + 3])

IsPlainTime(s) == \E h \in 1..2 : ClockAt(s, h) /\ Len(s) = h + 3

IsMarkedTime(s) ==
  \E h \in 1..2 :
    /\ ClockAt(s, h)
    /\ Len(s) >= h + 5
    /\ \A i \in (h + 4)..(Len(s) - 2) : s[i] = " "
    /\ s[Len(s) - 1] \in {"A", "a", "P", "p"}
    /\ s[Len(s)] \in {"M", "m"}

IsAcceptedTime(s) == IsPlainTime(s) \/ IsMarkedTime(s)

HourDigits(s) == IF s[2] = ":" THEN 1 ELSE 2
ClockHour(s) == IF HourDigits(s) = 1 THEN DigitVal(s[1])
                ELSE 10 * DigitVal(s[1]) + DigitVal(s[2])
ClockMinute(s) == 10 * DigitVal(s[HourDigits(s) + 2]) + DigitVal(s[HourDigits(s) + 3])

TwoDigits(n) == <<Digits[(n \div 10) + 1], Digits[(n % 10) + 1]>>

\* a plain string is its own normal form; 12 AM is hour 00, 12 PM hour 12,
\* every other PM hour gains 12
Normal24(s) ==
  IF IsPlainTime(s) THEN s
  ELSE LET pm == s[Len(s) - 1] \in {"P", "p"}
           h == ClockHour(s)
           h24 == IF pm THEN (IF h = 12 THEN 12 ELSE h + 12)
                  ELSE (IF h = 12 THEN 0 ELSE h)
       IN TwoDigits(h24) \o <<":">> \o TwoDigits(ClockMinute(s))

\* a valid 24-hour HH:MM time, and its minutes since midnight
IsValid24(s) == IsPlainTime(s) /\ Len(s) = 5 /\ ClockHour(s) <= 23 /\ ClockMinute(s) <= 59
MinutesOfDay(s) == 60 * ClockHour(s) + ClockMinute(s)

DurationBy(impl, a, b) ==
  CASE impl = "part_000" -> calculateDuration(a, b)
    [] impl = "date-utils" -> calculateDuration_du(a, b)
    [] impl = "sleep-tracker" -> Returned(SleepTracker_calculateDuration(a, b))

(***************************************************************************)
(* Claims on the time utilities (SpecTime).                                *)
(***************************************************************************)

\* C3: startOfWeek(d) is the Monday of the week containing d (a Sunday maps
\* to the Monday six days earlier), and endOfWeek(startOfWeek(d)) is exactly
\* six days after startOfWeek(d), the Sunday of that week.
C3_WeekBounds ==
  /\ ret.op = "getStartOfWeek" =>
       /\ getDay(ret.value) = 1
       /\ \E k \in 0..6 : ret.arg = addDays(ret.value, k)
  /\ (ret.op = "getEndOfWeek" /\ ret.from = "weekStart") =>
       /\ ret.value = addDays(ret.arg, 6)
       /\ getDay(ret.value) = 0

\* getEndOfWeek of a Monday is the Saturday five days later
C3_Witness ==
  /\ ret.op = "getEndOfWeek" /\ ret.from = "weekStart"
  /\ getDay(ret.arg) = 1
  /\ ret.value = addDays(ret.arg, 5)
  /\ getDay(ret.value) = 6

\* the half of C3 the code meets: getStartOfWeek returns the Monday on or
\* before d, at most six days back, at the same time of day
StartOfWeekIsMonday ==
  ret.op = "getStartOfWeek" =>
    /\ getDay(ret.value) = 1
    /\ \E k \in 0..6 : ret.arg = addDays(ret.value, k)

\* what getEndOfWeek does instead: the Saturday on or after its argument
EndOfWeekIsSaturday ==
  ret.op = "getEndOfWeek" =>
    /\ getDay(ret.value) = 6
    /\ \E k \in 0..6 : ret.value = addDays(ret.arg, k)

\* C5: parsing a time string that does not match HH:MM (optionally followed
\* by AM/PM) fails with an error; neither calculateDuration nor logSleep
\* returns normally, with a default or garbage duration, for a malformed
\* start or end time.
C5_MalformedTimeFails ==
  /\ (ret.op = "formatTimeTo24Hour" /\ ~IsAcceptedTime(ret.arg)) => ret.result.threw
  /\ (ret.op \in {"calculateDuration", "logSleep"}
        /\ (~IsAcceptedTime(ret.startTime) \/ ~IsAcceptedTime(ret.endTime))) =>
       ret.result.threw

\* calculateDuration of part_000 returns NaN for the start time "7"
C5_Witness ==
  /\ ret.op = "calculateDuration" /\ ret.impl = "part_000"
  /\ ret.startTime = T7 /\ ret.endTime = T0645
  /\ ret.result = Returned(NaN)

\* C6: every accepted string, plain 24-hour or 12-hour with a marker in any
\* case, is normalised to its 24-hour form, and the duration between two
\* accepted strings is the duration between their normal forms.
C6_AcceptsBothFormats ==
  /\ (ret.op = "formatTimeTo24Hour" /\ IsAcceptedTime(ret.arg)) =>
       ret.result = Returned(Normal24(ret.arg))
  /\ (ret.op = "calculateDuration"
        /\ IsAcceptedTime(ret.startTime) /\ IsAcceptedTime(ret.endTime)) =>
       /\ ~ret.result.threw
       /\ IsNum(ret.result.value)
       /\ ret.result = DurationBy(ret.impl, Normal24(ret.startTime), Normal24(ret.endTime))

\* formatTimeTo24Hour of part_000 throws on the plain string 23:00, and the
\* one of date-utils leaves the hour of "10:30 pm" at 10
C6_Witness ==
  /\ ret.op = "formatTimeTo24Hour"
  /\ \/ ret.impl = "part_000" /\ ret.arg = T2300 /\ ret.result = Thrown
     \/ ret.impl = "date-utils" /\ ret.arg = T1030pm /\ ret.result = Returned(<<"1", "0", ":", "3", "0">>)

\* C7: for valid 24-hour times the duration is ((end - start) mod 1440) / 60
\* hours, at least 0 and less than 24; an end before the start wraps past
\* midnight.
C7_DurationWraps ==
  (ret.op = "calculateDuration" /\ IsValid24(ret.startTime) /\ IsValid24(ret.endTime)) =>
    /\ ~ret.result.threw
    /\ ret.result.value =
         Num((MinutesOfDay(ret.endTime) - MinutesOfDay(ret.startTime)) % (24 * 60), 60)
    /\ Le(IntNum(0), ret.result.value)
    /\ Lt(ret.result.value, IntNum(24))

\* 22:30 to 06:45 is 8.25 hours
C7_Witness ==
  /\ ret.op = "calculateDuration"
  /\ ret.impl = "part_000"
  /\ ret.startTime = T2230 /\ ret.endTime = T0645
  /\ ret.result = Returned(Num(33, 4))

(***************************************************************************)
(* Claims on the SleepAnalyzer (SpecAnalyzer).                             *)
(***************************************************************************)
\* the deficit of one entry against 8 hours: a missing duration is a full
\* deficit, a duration of 8 hours or more none
EntryDeficit(e) ==
  IF ~IsNum(e.duration) THEN IntNum(8)
  ELSE IF Le(IntNum(8), e.duration) THEN IntNum(0)
  ELSE Sub(IntNum(8), e.duration)

SumOfDeficits(entries) ==
  SumSeq([i \in 1..Len(entries) |-> EntryDeficit(entries[i])])

WeekdayIndexes(entries) == {i \in 1..Len(entries) : ~entries[i].isWeekend}
WeekdayCount(entries) == Cardinality(WeekdayIndexes(entries))
WeekdayTotal(entries) ==
  SumSeq([i \in 1..Len(entries) |->
            IF entries[i].isWeekend \/ ~IsNum(entries[i].duration) THEN IntNum(0)
            ELSE entries[i].duration])

\* C1: sleepDebt is the sum over all entries of max(0, 8 - duration), a
\* missing duration counting as 0; an entry above 8 hours contributes 0 and
\* never offsets the deficit of another entry.
C1_SleepDebtPerEntry ==
  ret.op = "analyzeSleepConsistency" =>
    ret.value.sleepDebt = SumOfDeficits(input.entries)

\* the analyzer of report-generator.ts lets a 16-hour night cancel the
\* deficit of a 6-hour night
C1_Witness ==
  /\ ret.op = "analyzeSleepConsistency" /\ ret.impl = "report-generator"
  /\ input.entries = <<[isWeekend |-> FALSE, duration |-> IntNum(6)],
                       [isWeekend |-> FALSE, duration |-> IntNum(16)]>>
  /\ ret.value.sleepDebt = IntNum(0)
  /\ SumOfDeficits(input.entries) = IntNum(2)

\* C1 restricted to the analyzer of part_001, which meets it
SleepDebtPerEntry_part001 ==
  (ret.op = "analyzeSleepConsistency" /\ ret.impl = "part_001") =>
    ret.value.sleepDebt = SumOfDeficits(input.entries)

\* C8: the four metrics are non-negative and weekdayConsistency is at most
\* 100; the empty sequence gives the all-zero record, no weekday entry gives
\* weekdayConsistency 0, fewer than two weekday entries sleepVariability 0.
C8_MetricsRange ==
  ret.op = "analyzeSleepConsistency" =>
    LET m == ret.value
        weekdays == WeekdayCount(input.entries)
    IN /\ Le(IntNum(0), m.weekdayConsistency)
       /\ Le(m.weekdayConsistency, IntNum(100))
       /\ Le(IntNum(0), m.weekendRecovery)
       /\ Le(IntNum(0), m.sleepDebt)
       /\ RealSign(m.sleepVariability) >= 0
       /\ (Len(input.entries) = 0 =>
             /\ m.weekdayConsistency = IntNum(0) /\ m.weekendRecovery = IntNum(0)
             /\ m.sleepDebt = IntNum(0) /\ RealSign(m.sleepVariability) = 0)
       /\ (weekdays = 0 => m.weekdayConsistency = IntNum(0))
       /\ (weekdays < 2 => RealSign(m.sleepVariability) = 0)

\* three weekday entries of which one is within an hour of the mean, an
\* entry above 8 hours among them, and a positive debt and variability
C8_Witness ==
  /\ ret.op = "analyzeSleepConsistency"
  /\ ret.impl = "part_001"
  /\ WeekdayCount(input.entries) = 3
  /\ \E i \in 1..Len(input.entries) : Lt(IntNum(8), OrZero(input.entries[i].duration))
  /\ ret.value.weekdayConsistency = Num(100, 3)
  /\ Lt(IntNum(0), ret.value.sleepDebt)
  /\ RealSign(ret.value.sleepVariability) > 0

\* C9: optimalCatchup is min(4, max(0, weekdayCount * target - weekday
\* sleep)) over the weekday entries: between 0 and 4, and 0 without weekday
\* entries.
C9_CatchupCapped ==
  ret.op = "calculateOptimalCatchup" =>
    LET count == WeekdayCount(input.entries)
        deficit == Sub(Mul(IntNum(count), ret.target), WeekdayTotal(input.entries))
        expected == IF Le(deficit, IntNum(0)) THEN IntNum(0)
                    ELSE IF Le(IntNum(4), deficit) THEN IntNum(4)
                    ELSE deficit
    IN /\ ret.value = expected
       /\ Le(IntNum(0), ret.value)
       /\ Le(ret.value, IntNum(4))
       /\ (count = 0 => ret.value = IntNum(0))

\* a weekday deficit above 4 hours is reported as 4
C9_Witness ==
  /\ ret.op = "calculateOptimalCatchup"
  /\ ret.target = IntNum(8)
  /\ WeekdayCount(input.entries) = 2
  /\ WeekdayTotal(input.entries) = IntNum(6)
  /\ ret.value = IntNum(4)

Clamp100(x) == RealMin(Rational(IntNum(100)), RealMax(Rational(IntNum(0)), x))

\* the score the specification states, from the metrics m
StatedQualityScore(m) ==
  LET afterVariability ==
        Clamp100(RealSub(Rational(m.weekdayConsistency),
                         RealMin(RealScale(m.sleepVariability, IntNum(5)),
                                 Rational(IntNum(30)))))
      afterDebt ==
        Clamp100(RealSub(afterVariability,
                         RealMin(Rational(Mul(IntNum(5), m.sleepDebt)),
                                 Rational(IntNum(40)))))
  IN IntNum(MathRound(afterDebt))

\* C10: qualityScore is 0 for the empty sequence and otherwise
\* round(clamp(clamp(weekdayConsistency - min(5 * sleepVariability, 30))
\* - min(5 * sleepDebt, 40))) on the metrics of analyzeConsistency; it is an
\* integer in 0..100.
C10_QualityScoreFormula ==
  ret.op = "calculateSleepQualityScore" =>
    /\ ret.value.den = 1 /\ ret.value.num \in 0..100
    /\ ret.value =
         IF Len(input.entries) = 0 THEN IntNum(0)
         ELSE StatedQualityScore(
                SleepAnalyzer_analyzeSleepConsistency(ret.impl, input.entries))

\* the analyzer of report-generator.ts scores one 6-hour weekday night 88,
\* where the stated formula gives 90
C10_Witness ==
  /\ ret.op = "calculateSleepQualityScore" /\ ret.impl = "report-generator"
  /\ input.entries = <<[isWeekend |-> FALSE, duration |-> IntNum(6)]>>
  /\ ret.value = IntNum(88)
  /\ StatedQualityScore(analyzeSleepConsistency_rg(input.entries)) = IntNum(90)

\* C10 restricted to the analyzer of part_001, which meets it
QualityScoreFormula_part001 ==
  (ret.op = "calculateSleepQualityScore" /\ ret.impl = "part_001") =>
    /\ ret.value.den = 1 /\ ret.value.num \in 0..100
    /\ ret.value =
         IF Len(input.entries) = 0 THEN IntNum(0)
         ELSE StatedQualityScore(analyzeSleepConsistency(input.entries))

(***************************************************************************)
(* Claims on the SleepTracker facade (Spec).                               *)
(***************************************************************************)

\* C2: on a non-empty collection getHealthInsights returns, as
\* sleepQualityScore, calculateSleepQualityScore of all logged entries.
C2_InsightsCarryQualityScore ==
  (ret.op = "getHealthInsights" /\ Len(sleepEntries) > 0) =>
    ret.value.sleepQualityScore =
      SleepAnalyzer_calculateSleepQualityScore(
        ret.impl, getSleepEntries(sleepEntries, <<>>, <<>>))

\* one weekday night of 8.25 hours: the quality score is 100, the insights
\* of part_001 carry 0
C2_Witness ==
  /\ ret.op = "getHealthInsights" /\ ret.impl = "part_001"
  /\ Len(sleepEntries) = 1
  /\ sleepEntries[1].duration = Num(33, 4) /\ ~sleepEntries[1].isWeekend
  /\ calculateSleepQualityScore(sleepEntries) = IntNum(100)
  /\ ret.value.sleepQualityScore = IntNum(0)

\* what the facade does with the analyzer of part_001: the placeholder 0 is
\* passed on and returned
InsightsCarryPlaceholder_part001 ==
  (ret.op = "getHealthInsights" /\ ret.impl = "part_001") =>
    ret.value.sleepQualityScore = IntNum(0)

\* the Monday on or before a date, at the same time of day
MondayOf(date) ==
  CHOOSE m \in {addDays(date, 0 - k) : k \in 0..6} : getDay(m) = 1

\* C4: generateWeeklyReport(startDate) reports on exactly the logged entries
\* from the Monday of startDate's week to the Sunday six days later, which
\* is also period.endDate: that week's Sunday is in, adjacent weeks are out.
C4_WeekWindow ==
  ret.op = "generateWeeklyReport" =>
    LET weekStart == MondayOf(ret.start)
        weekEnd == addDays(weekStart, 6)
    IN /\ ret.value.period.startDate = weekStart
       /\ ret.value.period.endDate = weekEnd
       /\ \A i \in 1..Len(sleepEntries) :
            (weekStart <= sleepEntries[i].date /\ sleepEntries[i].date <= weekEnd)
              <=> (\E j \in 1..Len(ret.weeklyEntries) :
                     ret.weeklyEntries[j] = sleepEntries[i])

\* a report for a Thursday leaves out the entry of that week's Sunday and
\* ends its period on the Saturday
C4_Witness ==
  /\ ret.op = "generateWeeklyReport"
  /\ ret.start = 0
  /\ \E i \in 1..Len(sleepEntries) : sleepEntries[i].date = addDays(0, 3)
  /\ ret.weeklyEntries = <<>>
  /\ ret.value.period.endDate = addDays(0, 2)

\* what generateWeeklyReport does instead: the window runs from the Monday
\* to the Saturday on or after startDate, and period.endDate is the
\* Saturday after the Monday
WeekWindowEndsSaturday ==
  ret.op = "generateWeeklyReport" =>
    LET weekStart == MondayOf(ret.start)
        weekEnd == CHOOSE d \in {addDays(ret.start, k) : k \in 0..6} : getDay(d) = 6
    IN /\ ret.value.period.startDate = weekStart
       /\ ret.value.period.endDate = addDays(weekStart, 5)
       /\ \A i \in 1..Len(sleepEntries) :
            (weekStart <= sleepEntries[i].date /\ sleepEntries[i].date <= weekEnd)
              <=> (\E j \in 1..Len(ret.weeklyEntries) :
                     ret.weeklyEntries[j] = sleepEntries[i])

(***************************************************************************)
(* Claims on the scoring and the insights (SpecMetrics).                   *)
(***************************************************************************)

\* the square of a sleepVariability, which is 0 or the root of a variance
VarianceOf(x) == IF x.c.num = 0 THEN Mul(x.q, x.q) ELSE Mul(Mul(x.c, x.c), x.v)

\* m and n agree on weekdayConsistency and on one of sleepVariability and
\* sleepDebt, and n is at least m on the other
NoBetterMetrics(m, n) ==
  /\ m.weekdayConsistency = n.weekdayConsistency
  /\ \/ /\ m.sleepVariability = n.sleepVariability
        /\ Le(m.sleepDebt, n.sleepDebt)
     \/ /\ m.sleepDebt = n.sleepDebt
        /\ Le(VarianceOf(m.sleepVariability), VarianceOf(n.sleepVariability))

\* C11: with weekdayConsistency and the other metric the same, an entry
\* sequence of larger sleepVariability or larger sleepDebt never has the
\* higher quality score (of two non-empty sequences: the empty one scores 0
\* by a rule of its own).
C11_ScoreMonotone ==
  (ret.op = "calculateSleepQualityScoreTwice"
     /\ Len(input.first) > 0 /\ Len(input.second) > 0) =>
    (NoBetterMetrics(SleepAnalyzer_analyzeSleepConsistency(ret.impl, input.first),
                     SleepAnalyzer_analyzeSleepConsistency(ret.impl, input.second))
       => Le(ret.second, ret.first))

\* report-generator.ts: a 16-hour weekday night scores 82 and, with more
\* debt and the other two metrics the same, a 6-hour one scores 88
C11_Witness ==
  /\ ret.op = "calculateSleepQualityScoreTwice" /\ ret.impl = "report-generator"
  /\ input.first = <<[isWeekend |-> FALSE, duration |-> IntNum(16)]>>
  /\ input.second = <<[isWeekend |-> FALSE, duration |-> IntNum(6)]>>
  /\ NoBetterMetrics(analyzeSleepConsistency_rg(input.first),
                     analyzeSleepConsistency_rg(input.second))
  /\ ret.first = IntNum(82) /\ ret.second = IntNum(88)

\* C11 restricted to the analyzer of part_001, which meets it
ScoreMonotone_part001 ==
  (ret.op = "calculateSleepQualityScoreTwice" /\ ret.impl = "part_001") =>
    (NoBetterMetrics(analyzeSleepConsistency(input.first),
                     analyzeSleepConsistency(input.second))
       => Le(ret.second, ret.first))

\* what both scorings meet: with the metrics and, in report-generator.ts,
\* the average duration as inputs, a larger sleepVariability or sleepDebt
\* never raises the score
ScoreMonotoneInMetrics ==
  ret.op = "qualityScoreOfMore" => Le(ret.value, ret.scoreBefore)

\* the risk level the specification states, from the supplied
\* consistencyScore and the sleepDebt
StatedRiskLevel(consistencyScore, sleepDebt) ==
  IF Lt(consistencyScore, IntNum(50)) \/ Lt(IntNum(4), sleepDebt) THEN "high"
  ELSE IF Lt(consistencyScore, IntNum(70)) \/ Lt(IntNum(2), sleepDebt) THEN "moderate"
  ELSE "low"

\* C12: riskLevel is 'high' iff consistencyScore < 50 or sleepDebt > 4,
\* otherwise 'moderate' iff consistencyScore < 70 or sleepDebt > 2,
\* otherwise 'low'; it reads nothing but these two inputs.
C12_RiskLevel ==
  ret.op = "generateMentalHealthInsights" =>
    ret.value.riskLevel =
      StatedRiskLevel(input.analysis.consistencyScore, input.analysis.metrics.sleepDebt)

\* report-generator.ts reads weekdayConsistency instead: a supplied score
\* of 49 with weekdayConsistency 100 and no debt is 'low', not 'high'
C12_Witness ==
  /\ ret.op = "generateMentalHealthInsights" /\ ret.impl = "report-generator"
  /\ input.analysis.consistencyScore = IntNum(49)
  /\ input.analysis.metrics.weekdayConsistency = IntNum(100)
  /\ input.analysis.metrics.sleepDebt = IntNum(0)
  /\ ret.value.riskLevel = "low"

\* C12 restricted to the analyzer of part_001, which meets it
RiskLevel_part001 ==
  (ret.op = "generateMentalHealthInsights" /\ ret.impl = "part_001") =>
    ret.value.riskLevel =
      StatedRiskLevel(input.analysis.consistencyScore, input.analysis.metrics.sleepDebt)

\* the recommendations the four stated checks give, in check order, each
\* by its category and priority
StatedRecommendations(analysis) ==
  When(Lt(analysis.consistencyScore, IntNum(60)), <<<<"sleep-schedule", "high">>>>)
  \o When(Lt(IntNum(2), analysis.metrics.sleepDebt), <<<<"catchup-sleep", "medium">>>>)
  \o When(Lt(IntNum(0), analysis.metrics.sleepDebt)
            /\ Le(analysis.metrics.sleepDebt, IntNum(2)), <<<<"catchup-sleep", "low">>>>)
  \o When(Lt(analysis.metrics.weekendRecovery, IntNum(2)), <<<<"catchup-sleep", "medium">>>>)
  \o When(RealLt(Rational(Num(3, 2)), analysis.metrics.sleepVariability),
          <<<<"consistency", "medium">>>>)

\* C13: the four checks, in the order consistency, debt, weekend recovery,
\* variability, each append one recommendation or one success factor: the
\* recommendations are those of the failing checks in that order, and
\* recommendations and success factors number four together (four
\* recommendations for consistencyScore 55, sleepDebt 3, weekendRecovery 1,
\* sleepVariability 2).
C13_FourChecks ==
  ret.op = "generateMentalHealthInsights" =>
    LET recs == ret.value.recommendations
    IN /\ [i \in 1..Len(recs) |-> <<recs[i].category, recs[i].priority>>]
            = StatedRecommendations(input.analysis)
       /\ Len(recs) + Len(ret.value.successFactors) = 4

\* report-generator.ts with recommendationLevel 'low': every check passes,
\* and the result holds one recommendation and four success factors
C13_Witness ==
  /\ ret.op = "generateMentalHealthInsights" /\ ret.impl = "report-generator"
  /\ input.analysis.recommendationLevel = "low"
  /\ StatedRecommendations(input.analysis) = <<>>
  /\ Len(ret.value.recommendations) = 1
  /\ Len(ret.value.successFactors) = 4

\* C13 restricted to the analyzer of part_001, which meets it, the stated
\* example included
FourChecks_part001 ==
  (ret.op = "generateMentalHealthInsights" /\ ret.impl = "part_001") =>
    LET recs == ret.value.recommendations
        a == input.analysis
    IN /\ [i \in 1..Len(recs) |-> <<recs[i].category, recs[i].priority>>]
            = StatedRecommendations(a)
       /\ Len(recs) + Len(ret.value.successFactors) = 4
       /\ (a.consistencyScore = IntNum(55) /\ a.metrics.sleepDebt = IntNum(3)
             /\ a.metrics.weekendRecovery = IntNum(1)
             /\ a.metrics.sleepVariability = Rational(IntNum(2)))
            => (Len(recs) = 4 /\ ret.value.riskLevel = "moderate")

(***************************************************************************)
(* Claims on the weekly report.                                            *)
(***************************************************************************)

\* C14: the consistencyScore of a weekly report is the quality score of the
\* reported entries, as the facade's analyzer computes it, and so differs
\* between entry sets of different quality scores.
C14_ReportCarriesScore ==
  ret.op = "generateWeeklyReport" =>
    \E impl \in Analyzers :
      ret.value.keyMetrics.consistencyScore =
        SleepAnalyzer_calculateSleepQualityScore(impl, ret.weeklyEntries)

\* a week of one 8.25-hour weekday night, which both analyzers score 100,
\* is reported with the consistencyScore 75
C14_Witness ==
  /\ ret.op = "generateWeeklyReport"
  /\ Len(ret.weeklyEntries) = 1
  /\ \A impl \in Analyzers :
       SleepAnalyzer_calculateSleepQualityScore(impl, ret.weeklyEntries) = IntNum(100)
  /\ ret.value.keyMetrics.consistencyScore = IntNum(75)

\* what the report carries instead: the same number whatever the entries
ReportScoreIsPlaceholder ==
  ret.op = "generateWeeklyReport" =>
    ret.value.keyMetrics.consistencyScore = IntNum(placeholderConsistencyScore)

\* the durations of the entries at the indexes in S, a missing one as 0
TotalDuration(entries, S) ==
  SumSeq([i \in 1..Len(entries) |->
            IF i \in S /\ IsNum(entries[i].duration) THEN entries[i].duration
            ELSE IntNum(0)])

\* C15: the report's averageSleepDuration is the sum of the durations over
\* the number of entries, 0 for no entries; catchupSleepHours is the sum of
\* the durations of the weekend-flagged entries; a missing duration counts
\* as 0 in both.
C15_ReportAverages ==
  ret.op = "ReportGenerator.generateWeeklyReport" =>
    LET entries == input.entries
        n == Len(entries)
        weekend == {i \in 1..n : entries[i].isWeekend}
    IN /\ IsNum(ret.value.keyMetrics.averageSleepDuration)
       /\ n = 0 => ret.value.keyMetrics.averageSleepDuration = IntNum(0)
       /\ n > 0 => Mul(ret.value.keyMetrics.averageSleepDuration, IntNum(n))
                     = TotalDuration(entries, 1..n)
       /\ ret.value.keyMetrics.catchupSleepHours = TotalDuration(entries, weekend)

\* a weekday night of 6 hours, a weekend night of 16 and a weekend entry
\* without duration: average 22/3, catch-up 16
C15_Witness ==
  /\ ret.op = "ReportGenerator.generateWeeklyReport"
  /\ input.entries = <<[isWeekend |-> FALSE, duration |-> IntNum(6)],
                       [isWeekend |-> TRUE, duration |-> IntNum(16)],
                       [isWeekend |-> TRUE, duration |-> Undefined]>>
  /\ ret.value.keyMetrics.averageSleepDuration = Num(22, 3)
  /\ ret.value.keyMetrics.catchupSleepHours = IntNum(16)

(***************************************************************************)
(* Claims on the facade's stored entries and configuration (Spec).         *)
(***************************************************************************)
AnalysisOps == {"getSleepEntries", "getHealthInsights", "generateWeeklyReport"}

\* the call a return value belongs to: the operation and its arguments
CallOf(r) == [r EXCEPT !.value = "value"]

C17_StoredDuration ==
  \A i \in 1..Len(sleepEntries) :
    LET e == sleepEntries[i]
    IN (IsValid24(e.startTime) /\ IsValid24(e.endTime)) =>
         /\ e.duration =
              Num((MinutesOfDay(e.endTime) - MinutesOfDay(e.startTime)) % (24 * 60), 60)
         /\ Le(IntNum(0), e.duration)
         /\ Le(e.duration, IntNum(24))

\* index.ts: the README's night 22:30 to 06:45, logged without a duration,
\* is stored without one
C17_Witness ==
  /\ ret.op = "logSleep"
  /\ Len(sleepEntries) > 0
  /\ LET e == sleepEntries[Len(sleepEntries)]
     IN e.startTime = T2230 /\ e.endTime = T0645 /\ e.duration = Undefined

\* the sleepDebt analyzeSleepConsistency computes over the entries
DebtOf(impl, entries) == SleepAnalyzer_analyzeSleepConsistency(impl, entries).sleepDebt

\* the entries stored before the last one was logged
BeforeLast(entries) == SubSeq(entries, 1, Len(entries) - 1)

\* C18: logging one more entry, one above 8 hours included, leaves the
\* sleepDebt over all logged entries unchanged or larger.
C18_DebtNeverDecreases ==
  ret.op = "logSleep" =>
    \A impl \in Analyzers :
      Le(DebtOf(impl, BeforeLast(sleepEntries)), DebtOf(impl, sleepEntries))

\* report-generator.ts: after a night of 5.75 hours the debt is 2.25, and
\* logging a night of 8.25 hours brings it down to 2
C18_Witness ==
  /\ ret.op = "logSleep"
  /\ Len(sleepEntries) = 2
  /\ sleepEntries[1].duration = Num(23, 4) /\ sleepEntries[2].duration = Num(33, 4)
  /\ DebtOf("report-generator", BeforeLast(sleepEntries)) = Num(9, 4)
  /\ DebtOf("report-generator", sleepEntries) = IntNum(2)

\* C18 restricted to the analyzer of part_001, which meets it
DebtNeverDecreases_part001 ==
  ret.op = "logSleep" =>
    Le(DebtOf("part_001", BeforeLast(sleepEntries)), DebtOf("part_001", sleepEntries))

\* how often the entry e occurs in a sequence
CountIn(entries, e) == Cardinality({i \in 1..Len(entries) : entries[i] = e})

\* date lies within the optional bounds, both inclusive
WithinBounds(date, startDate, endDate) ==
  /\ startDate = <<>> \/ startDate[1] <= date
  /\ endDate = <<>> \/ date <= endDate[1]

\* what getSleepEntries returned: the stored entries within the bounds, each
\* as often as it is stored and as it is stored, in non-decreasing date order
ReturnsStoredInOrder ==
  ret.op = "getSleepEntries" =>
    /\ \A i \in 1..(Len(ret.value) - 1) : ret.value[i].date <= ret.value[i + 1].date
    /\ \A e \in {ret.value[i] : i \in 1..Len(ret.value)}
               \cup {sleepEntries[i] : i \in 1..Len(sleepEntries)} :
         CountIn(ret.value, e) =
           IF WithinBounds(e.date, ret.startDate, ret.endDate)
           THEN CountIn(sleepEntries, e) ELSE 0

\* logSleep appends one entry to the stored ones, every other operation
\* leaves them as they are
StoredOnlyGrows ==
  IF ret'.op = "logSleep"
  THEN /\ Len(sleepEntries') = Len(sleepEntries) + 1
       /\ SubSeq(sleepEntries', 1, Len(sleepEntries)) = sleepEntries
  ELSE sleepEntries' = sleepEntries

ConfigsCompared ==
  {mergeConfig(SleepTracker_constructor(c), u) :
     c \in ConstructorConfigs, u \in UpdateConfigs \cup {NoSettings}}

\* a result is the one a tracker with the same entries and any other
\* configuration returns
SameUnderAnyConfig ==
  /\ config \in ConfigsCompared
  /\ ret.op = "getHealthInsights" =>
       \A cfg \in ConfigsCompared :
         getHealthInsights(ret.impl, sleepEntries, cfg) = ret.value
  /\ ret.op = "generateWeeklyReport" =>
       ret.value = generateWeeklyReport(sleepEntries, ret.start)

\* C20: getHealthInsights and generateWeeklyReport return what they would
\* return under any other constructor configuration and any updateConfig
\* calls, given the same logged entries; updateConfig leaves the stored
\* entries as they are.
C20_ConfigHasNoInfluence ==
  []SameUnderAnyConfig /\ [][ret'.op = "updateConfig" => sleepEntries' = sleepEntries]_vars

\* a target of 9 hours makes the catch-up hours of one 8.25-hour weekday
\* night 0.75 instead of 0, and the insights are those of the default target
C20_Witness ==
  /\ ret.op = "getHealthInsights"
  /\ config.targetSleepDuration = IntNum(9)
  /\ Len(sleepEntries) = 1 /\ ~sleepEntries[1].isWeekend
  /\ calculateOptimalCatchup(sleepEntries, IntNum(9)) = Num(3, 4)
  /\ calculateOptimalCatchup(sleepEntries, IntNum(8)) = IntNum(0)
  /\ ret.value = getHealthInsights(ret.impl, sleepEntries,
                                   SleepTracker_constructor(NoSettings))

=============================================================================
